---- MODULE Spec2Model ----
(***************************************************************************)
(* Canvas Elements Generator: the asset-generation run of App              *)
(* (handleGenerate) and the service functions it calls                     *)
(* (generatePromptVariations, generateSingleAsset).                        *)
(*                                                                         *)
(* A run is one invocation of the async function handleGenerate.  Its      *)
(* suspension points (await) separate the actions; the statements between  *)
(* two suspension points run without interleaving.  The state setters of   *)
(* the component (setAssets, setProgress, setError, setIsGenerating) are    *)
(* assignments made in program order.                                      *)
(***************************************************************************)
EXTENDS Integers, Sequences, FiniteSets, TLC

(***************************************************************************)
(* Bounds of the model.                                                    *)
(***************************************************************************)
\* longest "short" list (fewer entries than asked for) the service returns
MaxShortLen == 2
\* most items of one run whose fetch fails and is skipped
MaxSkips == 1
\* most calls of withRetry made one after the other
MaxRetryCalls == 2
\* most runs started after the first run has ended
MaxReruns == 1
\* longest list the service returns when runs follow one another
MaxRerunLen == 5

(***************************************************************************)
(* Program constants.                                                      *)
(***************************************************************************)
\* handleGenerate asks generatePromptVariations for 20 prompts
RequestedCount == 20
\* batchSize of handleGenerate
batchSize == 1
\* handleGenerate: the pacing wait between two batches, in ms
PacingDelay == 4000
\* withRetry: default of maxRetries
DefaultMaxRetries == 5
\* withRetry: default of initialDelay, in ms
DefaultInitialDelay == 4000
\* withRetry: Math.random() * 1000 is below this, in ms
JitterRange == 1000
\* the significand of an IEEE-754 double has 53 bits (JavaScript numbers)
MantissaBits == 53
\* width of the three chunks the product of a significand with 100 is computed on
ChunkBits == (MantissaBits + 7) \div 3

(***************************************************************************)
(* JavaScript number arithmetic of                                         *)
(*   Math.min(100, Math.round(((i + len) / variations.length) * 100))      *)
(* A double is kept as a sequence of bits, most significant first.         *)
(***************************************************************************)
Min(a, b) == IF a <= b THEN a ELSE b

\* 2^z modulo n, by repeated squaring
RECURSIVE Pow2Mod(_, _)
Pow2Mod(z, n) ==
    IF z = 0 THEN 1 % n
    ELSE LET h == Pow2Mod(z \div 2, n)
         IN  (h * h * (IF z % 2 = 1 THEN 2 ELSE 1)) % n

\* the remainder of r/n after z bits of its binary expansion (0 <= r < n)
RemAfter(r, n, z) == (r * Pow2Mod(z, n)) % n

\* the first cnt bits of the binary expansion of r/n after the point
FracBits(r, n, cnt) ==
    [j \in 1..cnt |-> IF 2 * RemAfter(r, n, j - 1) >= n THEN 1 ELSE 0]

\* number of zero bits after the point before the first one bit of r/n, r > 0
LeadingZeros(r, n) ==
    CHOOSE z \in 0..n : /\ 2 * RemAfter(r, n, z) >= n
                        /\ \A y \in 0..(z - 1) : 2 * RemAfter(r, n, y) < n

\* bits + 1; a carry out of the top bit gives one more bit
IncBits(bits) ==
    LET zeros == {j \in 1..Len(bits) : bits[j] = 0}
    IN  IF zeros = {}
        THEN <<1>> \o [j \in 1..Len(bits) |-> 0]
        ELSE LET p == CHOOSE j \in zeros : \A y \in zeros : y <= j
             IN  [j \in 1..Len(bits) |->
                    IF j < p THEN bits[j] ELSE IF j = p THEN 1 ELSE 0]

\* round-to-nearest, ties-to-even, of a significand that starts with a one
\* bit to MantissaBits bits; sticky says that nonzero bits follow the sequence.
\* The result is the significand and the number of low bits dropped.
RoundToDouble(bits, sticky) ==
    IF Len(bits) <= MantissaBits THEN [m |-> bits, dropped |-> 0]
    ELSE LET keep == SubSeq(bits, 1, MantissaBits)
             guard == bits[MantissaBits + 1]
             more == sticky \/ (\E j \in (MantissaBits + 2)..Len(bits) : bits[j] = 1)
             up == guard = 1 /\ (more \/ keep[MantissaBits] = 1)
             r == IF up THEN IncBits(keep) ELSE keep
         IN  IF Len(r) > MantissaBits
             THEN [m |-> SubSeq(r, 1, MantissaBits),
                   dropped |-> Len(bits) - MantissaBits + 1]
             ELSE [m |-> r, dropped |-> Len(bits) - MantissaBits]

\* value of a bit sequence of at most ChunkBits bits
RECURSIVE BitsToNat(_)
BitsToNat(bits) ==
    IF bits = << >> THEN 0
    ELSE 2 * BitsToNat(SubSeq(bits, 1, Len(bits) - 1)) + bits[Len(bits)]

\* the w low bits of x
NatToBits(x, w) == [j \in 1..w |-> (x \div 2^(w - j)) % 2]

\* a bit sequence without its leading zero bits
StripZeros(bits) ==
    LET ones == {j \in 1..Len(bits) : bits[j] = 1}
    IN  IF ones = {} THEN << >>
        ELSE SubSeq(bits, CHOOSE j \in ones : \A y \in ones : j <= y, Len(bits))

\* bits * 100 for a significand of MantissaBits bits, computed on three
\* chunks of at most ChunkBits bits with carries between them
TimesHundred(bits) ==
    LET lo == BitsToNat(SubSeq(bits, Len(bits) - ChunkBits + 1, Len(bits)))
        mid == BitsToNat(SubSeq(bits, Len(bits) - 2 * ChunkBits + 1, Len(bits) - ChunkBits))
        hi == BitsToNat(SubSeq(bits, 1, Len(bits) - 2 * ChunkBits))
        pl == lo * 100
        pm == mid * 100 + pl \div 2^ChunkBits
        ph == hi * 100 + pm \div 2^ChunkBits
    IN  StripZeros(NatToBits(ph, ChunkBits) \o NatToBits(pm % 2^ChunkBits, ChunkBits)
                   \o NatToBits(pl % 2^ChunkBits, ChunkBits))

\* Math.round((k / n) * 100) for 1 <= k <= n, in double arithmetic:
\* k / n is rounded to a double, the product with 100 is rounded to a double,
\* Math.round takes the nearest integer, a half going up.
JsRoundPercent(k, n) ==
    IF k = n THEN 100
    ELSE LET z == LeadingZeros(k, n)
             fb == FracBits(RemAfter(k, n, z), n, MantissaBits + 1)
             q == RoundToDouble(fb, RemAfter(k, n, z + MantissaBits + 1) # 0)
             \* k/n as a double is q.m * 2^(-qexp)
             qexp == z + MantissaBits + 1 - q.dropped
             p == RoundToDouble(TimesHundred(q.m), FALSE)
             \* (k/n)*100 as a double is p.m * 2^(-pexp)
             pexp == qexp - p.dropped
             intLen == Len(p.m) - pexp
             whole == BitsToNat(SubSeq(p.m, 1, intLen))
             half == p.m[intLen + 1]
         IN  whole + half

\* Math.round((k / n) * 100) for every list length n a run can have and every
\* 1 <= k <= n, as a table
RoundPercents ==
    [n \in 1..(2 * RequestedCount) |-> [k \in 1..n |-> JsRoundPercent(k, n)]]

\* Math.min(100, Math.round(((i + currentBatch.length) / variations.length) * 100))
ProgressAfter(idx, batchLen, total) == Min(100, RoundPercents[total][idx + batchLen])

(***************************************************************************)
(* Types.                                                                  *)
(***************************************************************************)
STICKER == "Sticker"
PNG_ELEMENT == "PNG Element"
GRAPHIC == "Graphic"
SHAPE_3D == "3D Shape"
MOCKUP == "Mockup"
PHOTO == "Photo"
STAMP == "Stamp"
GIF == "GIF (Motion)"
AssetType == {STICKER, PNG_ELEMENT, GRAPHIC, SHAPE_3D, MOCKUP, PHOTO, STAMP, GIF}

\* the kinds a run of the model is started with: a static one and the motion one
InputTypes == {STICKER, GIF}

\* the prompt the user typed, and the j-th description written by the service
BasePrompt == <<"base">>
ServicePrompt(j) == <<"variation", j>>

(***************************************************************************)
(* Errors.  A message is known by the marker substrings it contains; the  *)
(* code classifies errors by message.includes(marker) and by status.       *)
(***************************************************************************)
Markers == {"429", "500", "Rpc failed", "Requested entity was not found"}
RESOURCE_EXHAUSTED == "RESOURCE_EXHAUSTED"
NoStatus == "none"

\* an error without message (message undefined or empty)
NoMessage == [text |-> "", marks |-> {}]
\* a message of the service reports one kind of failure, or none of those the
\* code looks for
UpstreamMessages == {[text |-> "upstream", marks |-> {m}] : m \in Markers}
                        \cup {[text |-> "upstream", marks |-> {}], NoMessage}
\* the errors a call of the service may be rejected with
UpstreamErrors == [message : UpstreamMessages, status : {RESOURCE_EXHAUSTED, NoStatus}]

\* generateSingleAsset: no inline image in the response
NoImageError == [message |-> [text |-> "Failed to generate image data", marks |-> {}],
                 status |-> NoStatus]
\* handleGenerate: no asset at the end of the loop
EmptyRunMessage == [text |-> "Could not forge any elements. Service might be busy. Try again in a few moments.",
                    marks |-> {}]
EmptyRunError == [message |-> EmptyRunMessage, status |-> NoStatus]

\* the messages handleGenerate shows
AuthMessage == [text |-> "API Authentication Error. Re-selecting your API key might help.",
                marks |-> {}]
RateLimitMessage == [text |-> "Rate limit exceeded. The API is temporarily blocking requests. Please wait 1-2 minutes before trying again.",
                     marks |-> {}]
DefaultMessage == [text |-> "Failed to forge elements. Please try again.", marks |-> {}]
\* error === null
NoError == [text |-> "null", marks |-> {}]

\* the errors generateSingleAsset may be rejected with
FetchErrors == UpstreamErrors \cup {NoImageError}

\* err?.message?.includes(marker)
Includes(err, marker) == marker \in err.message.marks

\* withRetry: isRateLimit
isRateLimit(err) == Includes(err, "429") \/ err.status = RESOURCE_EXHAUSTED
\* withRetry: isServerError
isServerError(err) == Includes(err, "500") \/ Includes(err, "Rpc failed")

(***************************************************************************)
(* generatePromptVariations: what it makes of the text of the response.    *)
(* The text is unparsable ("garbage"), absent ("none"), or a JSON array.   *)
(***************************************************************************)
ServiceList(len) == [j \in 1..len |-> ServicePrompt(j)]

\* lengths of the arrays the service answers with: short ones, the count asked
\* for, and twice the count
PayloadLens == (0..MaxShortLen) \cup {RequestedCount, 2 * RequestedCount}

ResponseTexts == {[kind |-> "garbage", items |-> << >>], [kind |-> "none", items |-> << >>]}
                     \cup {[kind |-> "array", items |-> ServiceList(len)] : len \in PayloadLens}

\* Array(count).fill(basePrompt)
Fill(count, basePrompt) == [j \in 1..count |-> basePrompt]

\* JSON.parse(response.text || "[]"), then the fallbacks
ParseVariations(text, basePrompt, count) ==
    IF text.kind = "garbage"
    THEN Fill(count, basePrompt)
    ELSE LET parsed == IF text.kind = "none" THEN << >> ELSE text.items
         IN  IF Len(parsed) > 0 THEN parsed ELSE <<basePrompt>>

(***************************************************************************)
(* handleGenerate: the pieces of the batch loop.                           *)
(***************************************************************************)
\* the asset built from a successful fetch; id stands for the random id and
\* is the number of the generateSingleAsset call that produced the url
MakeAsset(prompt, t, id) ==
    [id |-> id, url |-> id, type |-> t, prompt |-> prompt, isVideo |-> (t = GIF)]

\* the null a failed item of the batch resolves to
NullAsset == [id |-> 0, url |-> 0, type |-> "null", prompt |-> <<"null">>, isVideo |-> FALSE]

\* inner catch: the error is thrown again
ItemCatchRethrows(err) == Includes(err, "429")

\* catch of the batch: the error is thrown again
BatchCatchRethrows(err) == Includes(err, "429")

\* the failure of an item leaves the loop: both catches throw the error again
ItemAbortsIfRetryable(err) == isRateLimit(err) \/ isServerError(err)
ItemAborts(err) == ItemCatchRethrows(err) /\ BatchCatchRethrows(err)

\* results.filter(r => r !== null)
SuccessfulAll(results) == results
Successful(results) == SelectSeq(results, LAMBDA r : r # NullAsset)

\* setAssets((prev) => [...successful, ...prev])
VisibleAppended(successful, prev) == prev \o successful
VisibleReplaced(successful, prev) == successful
VisibleAfter(successful, prev) == successful \o prev

\* newAssets.length === 0
EmptyRunThrowsNever(produced) == Len(produced) < 0
EmptyRunThrows(produced) == Len(produced) = 0

\* outer catch: the message shown
CatchMessageDefault(err) ==
    IF Includes(err, "Requested entity was not found") THEN AuthMessage
    ELSE IF Includes(err, "429") \/ err.status = RESOURCE_EXHAUSTED THEN RateLimitMessage
    ELSE DefaultMessage
CatchMessage(err) ==
    IF Includes(err, "Requested entity was not found") THEN AuthMessage
    ELSE IF Includes(err, "429") \/ err.status = RESOURCE_EXHAUSTED THEN RateLimitMessage
    ELSE IF err.message = NoMessage THEN DefaultMessage
    ELSE err.message

\* outer catch: openSelectKey is awaited
CatchReselects(err) == Includes(err, "Requested entity was not found")

\* const currentBatch = variations.slice(idx, idx + batchSize): the prompts
\* whose fetches are started together
BatchOfTwo(list, idx) == SubSeq(list, idx + 1, Min(idx + 2, Len(list)))
Batch(list, idx) == SubSeq(list, idx + 1, Min(idx + batchSize, Len(list)))

\* if (i + batchSize < variations.length): a pacing wait follows the batch
PacingNeededAlways(idx, total) == idx < total
PacingNeeded(idx, total) == idx + batchSize < total

\* finally: setProgress(0)
FinalProgressKept(p) == p
FinalProgress(p) == 0

\* finally: setIsGenerating(false)
FinalGeneratingKept(g) == g
FinalGenerating(g) == FALSE

(***************************************************************************)
(* State.                                                                  *)
(***************************************************************************)
VARIABLES
    assets,        \* App state: the visible collection
    isGenerating,  \* App state
    progress,      \* App state
    error,         \* App state
    pc,            \* where handleGenerate is suspended
    type,          \* handleGenerate: the kind asked for
    variations,    \* handleGenerate: the prompts of the run
    newAssets,     \* handleGenerate: the assets of the run
    i,             \* handleGenerate: the loop index (0-based)
    responseText,  \* history: the text the service answered the expansion with
    fetched,       \* history: the prompts passed to generateSingleAsset, in call order
    outcomes,      \* history: how each finished call ended: "ok", "rateLimit", "other"
    pacings,       \* history: the pacing waits of the run, in ms, in order
    expandErr,     \* history: the error generatePromptVariations rejected with
    notFoundSeen,  \* history: a call of the run rejected with 'Requested entity was not found'
    keyPrompts,    \* history: the calls of openSelectKey made by handleGenerate
    errorSets      \* history: the calls of setError with a message in this run

runVars == <<assets, isGenerating, progress, error, pc, type, variations, newAssets, i,
             responseText, fetched, outcomes, expandErr, notFoundSeen, keyPrompts, errorSets, pacings>>

\* withRetry
VARIABLES
    rPc,      \* where withRetry is suspended
    rMax,     \* maxRetries
    rInit,    \* initialDelay
    rI,       \* the loop index i
    rDelay,   \* delay
    rCount,   \* history: the invocations of fn made by this call
    rLast,    \* history: how the latest invocation of fn ended
    rWaits,   \* history: the delays this call has slept, in order
    rResult,  \* history: what this call returned or threw
    rCallNo   \* history: the calls of withRetry made so far

retryVars == <<rPc, rMax, rInit, rI, rDelay, rCount, rLast, rWaits, rResult, rCallNo>>

\* the runs of the page
VARIABLES
    reruns    \* history: the runs started after an earlier run had ended

pageVars == <<reruns>>

\* one call of generateSingleAsset
VARIABLES
    gPc,       \* where the call is: "idle", the call it awaits, "resolved", "rejected"
    gType,     \* type
    gHasKey,   \* hasKey: "unknown" before hasSelectedApiKey has answered, then "yes" or "no"
    gDone,     \* operation.done of the latest operation the service answered with
    gTrace,    \* history: the calls generateSingleAsset has awaited, in order
    gPolls,    \* history: the calls of getVideosOperation made
    gAsked,    \* history: the calls of openSelectKey made
    gStrips,   \* history: the images handed to removeWhiteBackground, in order
    gResult,   \* what the call resolved with
    gError     \* what the call rejected with

fetchVars == <<gPc, gType, gHasKey, gDone, gTrace, gPolls, gAsked, gStrips, gResult,
              gError>>

\* calls of removeWhiteBackground, one after the other
VARIABLES
    sPc,       \* where the call is: "idle", "loading" (img.src is set), "resolved"
    sInput,    \* dataUrl
    sContext,  \* history: canvas.getContext('2d') gave a context
    sResult,   \* what the promise resolved with
    sBefore,   \* history: dataUrl and result of the call before this one
    sCalls     \* history: the calls made so far

stripVars == <<sPc, sInput, sContext, sResult, sBefore, sCalls>>

\* the HTTP handlers of api/: requests served one after the other
VARIABLES
    hPc,        \* where the handler is: "idle", "upstream" (generateContent is awaited), "answered"
    hRoute,     \* which handler serves the request: "variations" or "generate"
    hReq,       \* req: method and body
    hStatus,    \* res.status(...)
    hBody,      \* res.json(...)
    hUpstream,  \* history: the calls of generateContent made for this request
    hServed     \* history: the requests answered so far

httpVars == <<hPc, hRoute, hReq, hStatus, hBody, hUpstream, hServed>>

\* GeneratorForm, localStorage and the clock of the browser
VARIABLES
    fMounted,      \* the page is loaded: App and GeneratorForm are mounted
    clicks,        \* clicks
    prompt,        \* prompt
    selectedType,  \* selectedType
    stClicks,      \* localStorage item "daily_clicks"
    stDate,        \* localStorage item "last_date"
    today,         \* the day new Date() is on
    fStarted,      \* history: the calls of onGenerate since the counter was last reset
    fRuns,         \* history: the calls of onGenerate made so far
    fLast,         \* history: how the latest handleSubmit ended
    fLoads         \* history: the times the page was loaded

formVars == <<fMounted, clicks, prompt, selectedType, stClicks, stDate, today, fStarted,
              fRuns, fLast, fLoads>>

\* the variables that are not of handleGenerate
notRunVars == <<retryVars, pageVars, fetchVars, stripVars, httpVars, formVars>>
\* the variables that are not of withRetry
notRetryVars == <<runVars, pageVars, fetchVars, stripVars, httpVars, formVars>>
\* the variables that are not of generateSingleAsset
notFetchVars == <<runVars, retryVars, pageVars, stripVars, httpVars, formVars>>
\* the variables that are not of removeWhiteBackground
notStripVars == <<runVars, retryVars, pageVars, fetchVars, httpVars, formVars>>
\* the variables that are not of the HTTP handlers
notHttpVars == <<runVars, retryVars, pageVars, fetchVars, stripVars, formVars>>
\* the variables that are neither of App nor of GeneratorForm
notAppVars == <<retryVars, pageVars, fetchVars, stripVars, httpVars>>

vars == <<runVars, retryVars, pageVars, fetchVars, stripVars, httpVars, formVars>>

NotAsked == [kind |-> "not asked", items |-> << >>]
\* fn has not been invoked, or the call has not settled
NotInvoked == [message |-> NoMessage, status |-> "not invoked"]
\* fn resolved
Resolved == [message |-> NoMessage, status |-> "resolved"]
\* generatePromptVariations has not rejected
NotRejected == [message |-> NoMessage, status |-> "not rejected"]
\* no image: the call has not resolved
NoUrl == [encoding |-> "none", decodes |-> FALSE, pixels |-> << >>]
\* a field a request body does not have (undefined)
Absent == "undefined"
\* a body without count: the field is a sequence of no or one number
NoCount == << >>
\* req.body is undefined
NoBody == [prompt |-> Absent, type |-> Absent, count |-> NoCount, parsed |-> FALSE]
\* no request, no answer
NoRequest == [method |-> "none", body |-> NoBody]
NoAnswer == [kind |-> "none"]
\* localStorage.getItem(...) of an item that is not there (null)
NoItem == << >>

Init ==
    /\ assets = << >>
    /\ isGenerating = FALSE
    /\ progress = 0
    /\ error = NoError
    /\ pc = "idle"
    /\ type = STICKER
    /\ variations = << >>
    /\ newAssets = << >>
    /\ i = 0
    /\ responseText = NotAsked
    /\ fetched = << >>
    /\ outcomes = << >>
    /\ pacings = << >>
    /\ expandErr = NotRejected
    /\ notFoundSeen = FALSE
    /\ keyPrompts = 0
    /\ errorSets = 0
    /\ rPc = "idle"
    /\ rMax = DefaultMaxRetries
    /\ rInit = DefaultInitialDelay
    /\ rI = 0
    /\ rDelay = DefaultInitialDelay
    /\ rCount = 0
    /\ rLast = NotInvoked
    /\ rWaits = << >>
    /\ rResult = NotInvoked
    /\ rCallNo = 0
    /\ reruns = 0
    /\ gPc = "idle"
    /\ gType = STICKER
    /\ gHasKey = "unknown"
    /\ gDone = FALSE
    /\ gTrace = << >>
    /\ gPolls = 0
    /\ gAsked = 0
    /\ gStrips = << >>
    /\ gResult = "none"
    /\ gError = NotRejected
    /\ sPc = "idle"
    /\ sInput = NoUrl
    /\ sContext = FALSE
    /\ sResult = NoUrl
    /\ sBefore = [input |-> NoUrl, result |-> NoUrl]
    /\ sCalls = 0
    /\ hPc = "idle"
    /\ hRoute = "variations"
    /\ hReq = NoRequest
    /\ hStatus = 0
    /\ hBody = NoAnswer
    /\ hUpstream = << >>
    /\ hServed = 0
    /\ fMounted = FALSE
    /\ clicks = 0
    /\ prompt = ""
    /\ selectedType = STICKER
    /\ stClicks = NoItem
    /\ stDate = NoItem
    /\ today = 1
    /\ fStarted = 0
    /\ fRuns = 0
    /\ fLast = "none"
    /\ fLoads = 0

\* the class withRetry gives an error
OutcomeOf(err) == IF isRateLimit(err) THEN "rateLimit" ELSE "other"

Skipped == {k \in 1..Len(outcomes) : outcomes[k] # "ok"}

\* finally
Finally ==
    /\ isGenerating' = FinalGenerating(isGenerating)
    /\ progress' = FinalProgress(progress)
    /\ pc' = "ended"

\* an error reaches the outer catch
Throw(err) ==
    /\ error' = CatchMessage(err)
    /\ errorSets' = errorSets + 1
    /\ IF CatchReselects(err)
       THEN /\ pc' = "reselecting"
            /\ keyPrompts' = keyPrompts + 1
            /\ UNCHANGED <<isGenerating, progress>>
       ELSE /\ Finally
            /\ UNCHANGED keyPrompts

\* the try block is left without an error
NoThrow ==
    /\ Finally
    /\ UNCHANGED <<error, errorSets, keyPrompts>>

\* handleGenerate is called: lines up to the await of generatePromptVariations
StartRun(t) ==
    /\ pc = "idle"
    /\ isGenerating' = TRUE
    /\ progress' = 0
    /\ error' = NoError
    /\ type' = t
    /\ pc' = "expanding"
    /\ UNCHANGED <<assets, variations, newAssets, i, responseText, fetched, outcomes,
                   pacings, expandErr, notFoundSeen, keyPrompts, errorSets>>
    /\ UNCHANGED notRunVars

\* generatePromptVariations resolves; the loop starts the first fetch
ExpandReturns(text) ==
    /\ pc = "expanding"
    /\ responseText' = text
    /\ variations' = ParseVariations(text, BasePrompt, RequestedCount)
    /\ newAssets' = << >>
    /\ i' = 0
    /\ IF 0 < Len(variations')
       THEN /\ fetched' = fetched \o Batch(variations', 0)
            /\ pc' = "fetching"
            /\ UNCHANGED <<isGenerating, progress, error, errorSets, keyPrompts>>
       ELSE /\ fetched' = fetched
            /\ IF EmptyRunThrows(newAssets')
               THEN Throw(EmptyRunError)
               ELSE NoThrow
    /\ UNCHANGED <<assets, type, outcomes, pacings, expandErr, notFoundSeen>>
    /\ UNCHANGED notRunVars

\* generatePromptVariations rejects
ExpandFails(err) ==
    /\ pc = "expanding"
    /\ expandErr' = err
    /\ notFoundSeen' = Includes(err, "Requested entity was not found")
    /\ Throw(err)
    /\ UNCHANGED <<assets, type, variations, newAssets, i, responseText, fetched, outcomes,
                   pacings>>
    /\ UNCHANGED notRunVars

\* the batch is settled with these results: lines 52 to 57
BatchDone(results) ==
    LET successful == Successful(results)
    IN  /\ newAssets' = newAssets \o successful
        /\ assets' = VisibleAfter(successful, assets)
        /\ progress' = ProgressAfter(i, batchSize, Len(variations))
        /\ pc' = "processed"
        /\ UNCHANGED <<isGenerating, error, errorSets, keyPrompts>>

\* generateSingleAsset resolves for item i
FetchSucceeds ==
    /\ pc = "fetching"
    /\ outcomes' = Append(outcomes, "ok")
    /\ BatchDone(<<MakeAsset(variations[i + 1], type, Len(fetched))>>)
    /\ UNCHANGED <<type, variations, i, responseText, fetched, pacings, expandErr,
                   notFoundSeen>>
    /\ UNCHANGED notRunVars

\* generateSingleAsset rejects for item i
FetchFails(err) ==
    /\ pc = "fetching"
    /\ outcomes' = Append(outcomes, OutcomeOf(err))
    /\ notFoundSeen' = (notFoundSeen \/ Includes(err, "Requested entity was not found"))
    /\ IF ItemAborts(err)
       THEN /\ Throw(err)
            /\ UNCHANGED <<assets, newAssets>>
       ELSE /\ Cardinality(Skipped) < MaxSkips
            /\ IF ItemCatchRethrows(err)
               THEN /\ pc' = "processed"
                    /\ UNCHANGED <<assets, newAssets, isGenerating, progress, error,
                                   errorSets, keyPrompts>>
               ELSE BatchDone(<<NullAsset>>)
    /\ UNCHANGED <<type, variations, i, responseText, fetched, pacings, expandErr>>
    /\ UNCHANGED notRunVars

\* after the batch: the pacing wait, or the end of the loop
AfterItem ==
    /\ pc = "processed"
    /\ IF PacingNeeded(i, Len(variations))
       THEN /\ pc' = "pacing"
            /\ pacings' = Append(pacings, PacingDelay)
            /\ UNCHANGED <<isGenerating, progress, error, i, errorSets, keyPrompts>>
       ELSE /\ i' = i + batchSize
            /\ pacings' = pacings
            /\ IF EmptyRunThrows(newAssets)
               THEN Throw(EmptyRunError)
               ELSE NoThrow
    /\ UNCHANGED <<assets, type, variations, newAssets, responseText, fetched, outcomes,
                   expandErr, notFoundSeen>>
    /\ UNCHANGED notRunVars

\* the pacing wait is over: the next item is fetched
PacingDone ==
    /\ pc = "pacing"
    /\ i' = i + batchSize
    /\ fetched' = fetched \o Batch(variations, i')
    /\ pc' = "fetching"
    /\ UNCHANGED <<assets, isGenerating, progress, error, type, variations, newAssets,
                   responseText, outcomes, pacings, expandErr, notFoundSeen, keyPrompts,
                   errorSets>>
    /\ UNCHANGED notRunVars

\* openSelectKey settles (resolved or rejected: the rejection is swallowed)
ReselectSettles(resolved) ==
    /\ pc = "reselecting"
    /\ Finally
    /\ UNCHANGED <<assets, error, type, variations, newAssets, i, responseText, fetched,
                   outcomes, pacings, expandErr, notFoundSeen, keyPrompts, errorSets>>
    /\ UNCHANGED notRunVars

Next ==
    \/ \E t \in InputTypes : StartRun(t)
    \/ \E text \in ResponseTexts : ExpandReturns(text)
    \/ \E err \in UpstreamErrors : ExpandFails(err)
    \/ FetchSucceeds
    \/ \E err \in FetchErrors : FetchFails(err)
    \/ AfterItem
    \/ PacingDone
    \/ \E resolved \in BOOLEAN : ReselectSettles(resolved)

Spec == Init /\ [][Next]_vars

\* every step of a run but its start: each call the run awaits settles, each
\* timer fires
RunStep ==
    \/ \E text \in ResponseTexts : ExpandReturns(text)
    \/ \E err \in UpstreamErrors : ExpandFails(err)
    \/ FetchSucceeds
    \/ \E err \in FetchErrors : FetchFails(err)
    \/ AfterItem
    \/ PacingDone
    \/ \E resolved \in BOOLEAN : ReselectSettles(resolved)

\* a run, every call it awaits settling in the end
FairSpec == Spec /\ WF_vars(RunStep)

(***************************************************************************)
(* Runs that follow one another on the page: handleGenerate is called      *)
(* again when the run before has ended.  The state of App stays; the       *)
(* locals of the call are new.                                             *)
(***************************************************************************)
\* the answers of the service when runs follow one another: short arrays
RerunTexts == {[kind |-> "none", items |-> << >>]}
                  \cup {[kind |-> "array", items |-> ServiceList(len)] : len \in 1..MaxRerunLen}

\* handleGenerate is called after an earlier run has ended
RunAgain(t) ==
    /\ pc = "ended"
    /\ reruns < MaxReruns
    /\ reruns' = reruns + 1
    /\ isGenerating' = TRUE
    /\ progress' = 0
    /\ error' = NoError
    /\ type' = t
    /\ pc' = "expanding"
    /\ variations' = << >>
    /\ newAssets' = << >>
    /\ i' = 0
    /\ responseText' = NotAsked
    /\ fetched' = << >>
    /\ outcomes' = << >>
    /\ pacings' = << >>
    /\ expandErr' = NotRejected
    /\ notFoundSeen' = FALSE
    /\ keyPrompts' = 0
    /\ errorSets' = 0
    /\ UNCHANGED assets
    /\ UNCHANGED <<retryVars, fetchVars, stripVars, httpVars, formVars>>

NextRuns ==
    \/ \E t \in InputTypes : StartRun(t)
    \/ \E t \in InputTypes : RunAgain(t)
    \/ \E text \in RerunTexts : ExpandReturns(text)
    \/ \E err \in UpstreamErrors : ExpandFails(err)
    \/ FetchSucceeds
    \/ \E err \in FetchErrors : FetchFails(err)
    \/ AfterItem
    \/ PacingDone
    \/ \E resolved \in BOOLEAN : ReselectSettles(resolved)

SpecRuns == Init /\ [][NextRuns]_vars

(***************************************************************************)
(* withRetry(fn, maxRetries, initialDelay).                                *)
(***************************************************************************)
\* the values of maxRetries and initialDelay withRetry is called with
RetryBudgets == 0..DefaultMaxRetries
RetryDelays == {DefaultInitialDelay, DefaultInitialDelay \div 4}
\* values of Math.random() * 1000, in ms
JitterValues == {0, JitterRange \div 2, JitterRange - 1}

\* the errors fn rejects with in the model: one of each class and marker
RetryErrors == {e \in UpstreamErrors :
                   e.status = NoStatus \/ e.message.marks \subseteq {"429"}}

\* let i = 0: the counter is a local of the call
RetryFirstIndexShared(prev) == prev
RetryFirstIndex(prev) == 0

\* (isRateLimit || isServerError) && i < maxRetries - 1
ShouldRetryAny(err, idx, max) == idx < max - 1
ShouldRetry(err, idx, max) == (isRateLimit(err) \/ isServerError(err)) /\ idx < max - 1

\* delay = (delay * 2) + (Math.random() * 1000)
NextDelayJitterFirst(delay, jitter) == (delay + jitter) * 2
NextDelay(delay, jitter) == (delay * 2) + jitter

\* withRetry is called
RetryCall(max, init) ==
    /\ rPc \in {"idle", "returned", "thrown"}
    /\ rCallNo < MaxRetryCalls
    /\ rCallNo' = rCallNo + 1
    /\ rMax' = max
    /\ rInit' = init
    /\ rDelay' = init
    /\ rI' = RetryFirstIndex(rI)
    /\ rCount' = 0
    /\ rLast' = NotInvoked
    /\ rWaits' = << >>
    /\ rResult' = NotInvoked
    /\ rPc' = IF rI' < max THEN "invoking" ELSE "final"
    /\ UNCHANGED notRetryVars

\* fn resolves: its value is returned
OperationResolves ==
    /\ rPc \in {"invoking", "final"}
    /\ rCount' = rCount + 1
    /\ rLast' = Resolved
    /\ rResult' = Resolved
    /\ rPc' = "returned"
    /\ UNCHANGED <<rMax, rInit, rI, rDelay, rWaits, rCallNo>>
    /\ UNCHANGED notRetryVars

\* fn rejects: the catch sleeps before the next attempt, or throws the error
OperationRejects(err) ==
    /\ rPc \in {"invoking", "final"}
    /\ rCount' = rCount + 1
    /\ rLast' = err
    /\ IF rPc = "invoking" /\ ShouldRetry(err, rI, rMax)
       THEN /\ rPc' = "sleeping"
            /\ rWaits' = Append(rWaits, rDelay)
            /\ UNCHANGED rResult
       ELSE /\ rPc' = "thrown"
            /\ rResult' = err
            /\ UNCHANGED rWaits
    /\ UNCHANGED <<rMax, rInit, rI, rDelay, rCallNo>>
    /\ UNCHANGED notRetryVars

\* sleep(delay) is over: the delay grows and the loop goes on
SleepDone(jitter) ==
    /\ rPc = "sleeping"
    /\ rDelay' = NextDelay(rDelay, jitter)
    /\ rI' = rI + 1
    /\ rPc' = IF rI' < rMax THEN "invoking" ELSE "final"
    /\ UNCHANGED <<rMax, rInit, rCount, rLast, rWaits, rResult, rCallNo>>
    /\ UNCHANGED notRetryVars

NextRetry ==
    \/ \E max \in RetryBudgets, init \in RetryDelays : RetryCall(max, init)
    \/ OperationResolves
    \/ \E err \in RetryErrors : OperationRejects(err)
    \/ \E jitter \in JitterValues : SleepDone(jitter)

SpecRetry == Init /\ [][NextRetry]_vars

(***************************************************************************)
(* generateSingleAsset(prompt, type): one call.  Every awaited call is a   *)
(* step; a call made through withRetry is here the whole call of           *)
(* withRetry, which resolves with the answer of the service or rejects     *)
(* with its last error.                                                    *)
(***************************************************************************)
\* most calls of getVideosOperation of one motion job
MaxPolls == 2

\* `data:image/png;base64,${part.inlineData.data}`
FetchedImage == "data url of the inline data"
\* canvas.toDataURL('image/png') of removeWhiteBackground
StrippedImage == "data url of the canvas"
\* URL.createObjectURL(blob)
BlobUrl == "object url of the blob"

\* const transparentTypes = [...]
transparentTypesAndMockup == {STICKER, PNG_ELEMENT, GRAPHIC, SHAPE_3D, STAMP, MOCKUP}
transparentTypes == {STICKER, PNG_ELEMENT, GRAPHIC, SHAPE_3D, STAMP}

\* what removeWhiteBackground(url) can resolve with: the data URL of the
\* canvas, or url itself
StripResults(url) == {StrippedImage, url}

\* the awaited calls that can reject; sleep and removeWhiteBackground cannot
Rejecting == {"checkingKey", "selectingKey", "submitting", "polling", "downloading",
              "readingBlob", "generating"}

\* await sleep(15000) of the polling loop, in ms
PollInterval == 15000

\* the call that is awaited at each place of generateSingleAsset: its name,
\* the time it waits when it is a sleep, whether it is made through withRetry
CallOf(place) ==
    CASE place = "checkingKey" -> [call |-> "hasSelectedApiKey", ms |-> 0, retried |-> FALSE]
      [] place = "selectingKey" -> [call |-> "openSelectKey", ms |-> 0, retried |-> FALSE]
      [] place = "submitting" -> [call |-> "generateVideos", ms |-> 0, retried |-> TRUE]
      [] place = "sleeping" -> [call |-> "sleep", ms |-> PollInterval, retried |-> FALSE]
      [] place = "polling" -> [call |-> "getVideosOperation", ms |-> 0, retried |-> TRUE]
      [] place = "downloading" -> [call |-> "fetch", ms |-> 0, retried |-> FALSE]
      [] place = "readingBlob" -> [call |-> "blob", ms |-> 0, retried |-> FALSE]
      [] place = "generating" -> [call |-> "generateContent", ms |-> 0, retried |-> TRUE]
      [] place = "stripping" -> [call |-> "removeWhiteBackground", ms |-> 0, retried |-> FALSE]

\* generateSingleAsset goes on to the next call it awaits, or settles
GoesTo(place) ==
    /\ gPc' = place
    /\ gTrace' = IF place \in {"resolved", "rejected"} THEN gTrace
                 ELSE Append(gTrace, CallOf(place))

\* while (!operation.done) { await sleep(15000); operation = await withRetry(...) }
AfterOperationNoWait(done) == IF done THEN "downloading" ELSE "polling"
AfterOperation(done) == IF done THEN "downloading" ELSE "sleeping"

GenerateCall(t) ==
    /\ gPc = "idle"
    /\ gType' = t
    /\ GoesTo(IF t = GIF THEN "checkingKey" ELSE "generating")
    /\ UNCHANGED <<gHasKey, gDone, gPolls, gAsked, gStrips, gResult, gError>>
    /\ UNCHANGED notFetchVars

\* hasSelectedApiKey() resolves
KeyChecked(hasKey) ==
    /\ gPc = "checkingKey"
    /\ gHasKey' = IF hasKey THEN "yes" ELSE "no"
    /\ GoesTo(IF hasKey THEN "submitting" ELSE "selectingKey")
    /\ gAsked' = IF hasKey THEN gAsked ELSE gAsked + 1
    /\ UNCHANGED <<gType, gDone, gPolls, gStrips, gResult, gError>>
    /\ UNCHANGED notFetchVars

\* openSelectKey() resolves
KeySelected ==
    /\ gPc = "selectingKey"
    /\ GoesTo("submitting")
    /\ UNCHANGED <<gType, gHasKey, gDone, gPolls, gAsked, gStrips, gResult, gError>>
    /\ UNCHANGED notFetchVars

\* generateVideos resolves with an operation
VideoSubmitted(done) ==
    /\ gPc = "submitting"
    /\ gDone' = done
    /\ GoesTo(AfterOperation(done))
    /\ UNCHANGED <<gType, gHasKey, gPolls, gAsked, gStrips, gResult, gError>>
    /\ UNCHANGED notFetchVars

\* sleep(15000) is over
PollSleepDone ==
    /\ gPc = "sleeping"
    /\ GoesTo("polling")
    /\ UNCHANGED <<gType, gHasKey, gDone, gPolls, gAsked, gStrips, gResult, gError>>
    /\ UNCHANGED notFetchVars

\* getVideosOperation resolves with the operation; the job is done at the
\* latest at poll MaxPolls
PollAnswers(done) ==
    /\ gPc = "polling"
    /\ done \/ gPolls + 1 < MaxPolls
    /\ gPolls' = gPolls + 1
    /\ gDone' = done
    /\ GoesTo(AfterOperation(done))
    /\ UNCHANGED <<gType, gHasKey, gAsked, gStrips, gResult, gError>>
    /\ UNCHANGED notFetchVars

\* fetch(downloadLink) resolves
Downloaded ==
    /\ gPc = "downloading"
    /\ GoesTo("readingBlob")
    /\ UNCHANGED <<gType, gHasKey, gDone, gPolls, gAsked, gStrips, gResult, gError>>
    /\ UNCHANGED notFetchVars

\* response.blob() resolves
BlobRead ==
    /\ gPc = "readingBlob"
    /\ GoesTo("resolved")
    /\ gResult' = BlobUrl
    /\ UNCHANGED <<gType, gHasKey, gDone, gPolls, gAsked, gStrips, gError>>
    /\ UNCHANGED notFetchVars

\* generateContent resolves, with or without a part that has inlineData
ContentReturns(hasImage) ==
    /\ gPc = "generating"
    /\ IF ~hasImage
       THEN /\ GoesTo("rejected")
            /\ gError' = NoImageError
            /\ UNCHANGED <<gStrips, gResult>>
       ELSE IF gType \in transparentTypes
       THEN /\ GoesTo("stripping")
            /\ gStrips' = Append(gStrips, FetchedImage)
            /\ UNCHANGED <<gResult, gError>>
       ELSE /\ GoesTo("resolved")
            /\ gResult' = FetchedImage
            /\ UNCHANGED <<gStrips, gError>>
    /\ UNCHANGED <<gType, gHasKey, gDone, gPolls, gAsked>>
    /\ UNCHANGED notFetchVars

\* removeWhiteBackground(imageUrl) resolves
StripReturns(url) ==
    /\ gPc = "stripping"
    /\ GoesTo("resolved")
    /\ gResult' = url
    /\ UNCHANGED <<gType, gHasKey, gDone, gPolls, gAsked, gStrips, gError>>
    /\ UNCHANGED notFetchVars

\* the awaited call rejects: generateSingleAsset rejects with its error
AwaitedRejects(err) ==
    /\ gPc \in Rejecting
    /\ GoesTo("rejected")
    /\ gError' = err
    /\ UNCHANGED <<gType, gHasKey, gDone, gPolls, gAsked, gStrips, gResult>>
    /\ UNCHANGED notFetchVars

NextFetch ==
    \/ \E t \in AssetType : GenerateCall(t)
    \/ \E hasKey \in BOOLEAN : KeyChecked(hasKey)
    \/ KeySelected
    \/ \E done \in BOOLEAN : VideoSubmitted(done)
    \/ PollSleepDone
    \/ \E done \in BOOLEAN : PollAnswers(done)
    \/ Downloaded
    \/ BlobRead
    \/ \E hasImage \in BOOLEAN : ContentReturns(hasImage)
    \/ \E url \in StripResults(FetchedImage) : StripReturns(url)
    \/ \E err \in RetryErrors : AwaitedRejects(err)

SpecFetch == Init /\ [][NextFetch]_vars

(***************************************************************************)
(* removeWhiteBackground(dataUrl): calls made one after the other, a later *)
(* call on what the call before resolved with.  An image is its pixels,    *)
(* (r, g, b, a) each; imageData.data is the flat array of their bytes.     *)
(***************************************************************************)
\* most pixels of an image
MaxPixels == 2
\* most calls made one after the other
MaxStripCalls == 2

\* const threshold = 245
threshold == 245
\* i += 4: the bytes of a pixel in imageData.data
BytesPerPixel == 4

\* the colours of the images: every mix of channels just below and at the
\* threshold, black, white
Colours == [1..3 -> {threshold - 1, threshold}] \cup {<<0, 0, 0>>, <<255, 255, 255>>}
\* the alpha values of the images
Alphas == {0, 128, 255}
PixelSamples == {c \o <<a>> : c \in Colours, a \in Alphas}

\* the data URLs removeWhiteBackground is first called with: images of
\* the service, and data that is no image
CorruptUrl == [encoding |-> "inline", decodes |-> FALSE, pixels |-> << >>]
InputUrls ==
    {[encoding |-> "inline", decodes |-> TRUE, pixels |-> ps] :
        ps \in UNION {[1..n -> PixelSamples] : n \in 1..MaxPixels}}
    \cup {CorruptUrl}

\* ctx.drawImage(img, 0, 0); ctx.getImageData(...).data
ImageData(url) ==
    [j \in 1..(BytesPerPixel * Len(url.pixels)) |->
        url.pixels[((j - 1) \div BytesPerPixel) + 1][((j - 1) % BytesPerPixel) + 1]]

\* r >= threshold && g >= threshold && b >= threshold
IsWhiteAny(r, g, b) == r >= threshold \/ g >= threshold \/ b >= threshold
IsWhite(r, g, b) == r >= threshold /\ g >= threshold /\ b >= threshold

\* for (let i = idx; i < data.length; i += 4) { ... data[i + 3] = 0 ... }
\* (data[i] of the code is data[i + 1] here)
RECURSIVE StripLoop(_, _)
StripLoop(data, idx) ==
    IF idx >= Len(data) THEN data
    ELSE StripLoop(IF IsWhite(data[idx + 1], data[idx + 2], data[idx + 3])
                   THEN [data EXCEPT ![idx + 4] = 0]
                   ELSE data,
                   idx + BytesPerPixel)

\* ctx.putImageData(imageData, 0, 0); canvas.toDataURL('image/png')
ToDataUrl(data) ==
    [encoding |-> "canvas", decodes |-> TRUE,
     pixels |-> [p \in 1..(Len(data) \div BytesPerPixel) |->
                    [c \in 1..BytesPerPixel |-> data[BytesPerPixel * (p - 1) + c]]]]

\* img.onerror = () => resolve(dataUrl)
OnErrorRejects(url) == [pc |-> "rejected", result |-> NoUrl]
OnErrorSettles(url) == [pc |-> "resolved", result |-> url]

\* removeWhiteBackground(dataUrl) is called: img.src = dataUrl
StripCall ==
    /\ sPc = "idle"
    /\ sPc' = "loading"
    /\ \E url \in InputUrls : sInput' = url
    /\ sCalls' = sCalls + 1
    /\ UNCHANGED <<sContext, sResult, sBefore>>
    /\ UNCHANGED notStripVars

\* removeWhiteBackground is called with what the call before resolved with
StripAgain ==
    /\ sPc = "resolved"
    /\ sCalls < MaxStripCalls
    /\ sPc' = "loading"
    /\ sInput' = sResult
    /\ sBefore' = [input |-> sInput, result |-> sResult]
    /\ sResult' = NoUrl
    /\ sContext' = FALSE
    /\ sCalls' = sCalls + 1
    /\ UNCHANGED notStripVars

\* img.onload, with or without a 2D context
ImageLoaded(hasContext) ==
    /\ sPc = "loading"
    /\ sInput.decodes
    /\ sContext' = hasContext
    /\ sResult' = IF ~hasContext THEN sInput
                  ELSE ToDataUrl(StripLoop(ImageData(sInput), 0))
    /\ sPc' = "resolved"
    /\ UNCHANGED <<sInput, sBefore, sCalls>>
    /\ UNCHANGED notStripVars

\* img.onerror
ImageFailed ==
    /\ sPc = "loading"
    /\ ~sInput.decodes
    /\ sPc' = OnErrorSettles(sInput).pc
    /\ sResult' = OnErrorSettles(sInput).result
    /\ UNCHANGED <<sInput, sContext, sBefore, sCalls>>
    /\ UNCHANGED notStripVars

NextStrip ==
    \/ StripCall
    \/ StripAgain
    \/ \E hasContext \in BOOLEAN : ImageLoaded(hasContext)
    \/ ImageFailed

SpecStrip == Init /\ [][NextStrip]_vars

(***************************************************************************)
(* The HTTP handlers of api/: handler(req, res) of /variations and of      *)
(* /generate.  A handler keeps nothing between requests.                   *)
(***************************************************************************)
\* most requests served one after the other
MaxRequests == 2

\* const { prompt, count = 10 } = req.body
DefaultCount == 10

Methods == {"GET", "POST", "PUT"}
Routes == {"variations", "generate"}

\* the bodies of the requests: none, and objects with or without prompt,
\* type and count, a prompt or type possibly the empty string
Bodies ==
    {NoBody} \cup
    {[prompt |-> p, type |-> t, count |-> c, parsed |-> TRUE] :
        p \in {Absent, "", "cats"}, t \in {Absent, "", STICKER}, c \in {NoCount, <<3>>}}

Requests == {[method |-> m, body |-> b] : m \in Methods, b \in Bodies}

\* req.body || {}
BodyOrEmpty(body) ==
    IF body.parsed THEN body
    ELSE [prompt |-> Absent, type |-> Absent, count |-> NoCount, parsed |-> TRUE]

\* !v for a string or undefined
Falsy(v) == v \in {Absent, ""}

\* if (!prompt) of /variations, if (!prompt || !type) of /generate
MissingInputPromptOnly(route, body) == Falsy(body.prompt)
MissingInput(route, body) ==
    IF route = "variations" THEN Falsy(body.prompt)
    ELSE Falsy(body.prompt) \/ Falsy(body.type)

\* the error texts of the handlers
MissingText(route) ==
    IF route = "variations" THEN "Missing prompt" ELSE "Missing prompt or type"
FailedText(route) ==
    IF route = "variations" THEN "Variation generation failed" ELSE "Generation failed"

\* res.status(...).json({ error })
ErrorAnswer(text) == [kind |-> "error", error |-> text]

\* ai.models.generateContent({...}) of the handler
UpstreamCall(route, body) ==
    IF route = "variations"
    THEN [model |-> "gemini-3-flash-preview", prompt |-> body.prompt,
          count |-> IF body.count = NoCount THEN DefaultCount ELSE body.count[1]]
    ELSE [model |-> "gemini-2.5-flash-image", prompt |-> body.prompt]

\* response.text of /variations: not JSON, empty, or an array of strings
HandlerTexts == {[kind |-> "garbage", items |-> << >>], [kind |-> "none", items |-> << >>]}
                   \cup {[kind |-> "array", items |-> ServiceList(len)] : len \in 0..MaxShortLen}

\* JSON.parse(response.text || "[]")
JsonParse(text) ==
    IF text.kind = "garbage" THEN [threw |-> TRUE, value |-> << >>]
    ELSE [threw |-> FALSE, value |-> IF text.kind = "none" THEN << >> ELSE text.items]

\* the parts of the first candidate: text parts and parts with inlineData,
\* its data possibly empty
NoInline == [data |-> Absent]
PartSamples == {[inlineData |-> NoInline], [inlineData |-> [data |-> ""]],
                [inlineData |-> [data |-> "aW1n"]]}
\* response of /generate: with or without candidates
ImageResponses ==
    {[candidates |-> FALSE, parts |-> << >>]} \cup
    {[candidates |-> TRUE, parts |-> ps] :
        ps \in UNION {[1..n -> PartSamples] : n \in 0..2}}

\* for (const part of ...parts || []) { if (part.inlineData) { ...; break; } }
FirstInlineData(response) ==
    LET parts == IF response.candidates THEN response.parts ELSE << >>
        with == {k \in 1..Len(parts) : parts[k].inlineData # NoInline}
    IN  IF with = {} THEN ""
        ELSE parts[CHOOSE k \in with : \A y \in with : k <= y].inlineData.data

\* `data:image/png;base64,${imageBase64}`
DataUri(imageBase64) == <<"data:image/png;base64,", imageBase64>>

\* the handler is called: up to its answer or to the awaited generateContent
HandleRequest ==
    /\ hPc \in {"idle", "answered"}
    /\ hServed < MaxRequests
    /\ \E route \in Routes, req \in Requests :
        /\ hRoute' = route
        /\ hReq' = req
        /\ IF req.method # "POST"
           THEN /\ hStatus' = 405
                /\ hBody' = ErrorAnswer("Method not allowed")
                /\ hUpstream' = << >>
                /\ hPc' = "answered"
                /\ hServed' = hServed + 1
           ELSE IF MissingInput(route, BodyOrEmpty(req.body))
           THEN /\ hStatus' = 400
                /\ hBody' = ErrorAnswer(MissingText(route))
                /\ hUpstream' = << >>
                /\ hPc' = "answered"
                /\ hServed' = hServed + 1
           ELSE /\ hStatus' = 0
                /\ hBody' = NoAnswer
                /\ hUpstream' = <<UpstreamCall(route, BodyOrEmpty(req.body))>>
                /\ hPc' = "upstream"
                /\ hServed' = hServed
    /\ UNCHANGED notHttpVars

\* generateContent of /variations resolves
VariationsAnswered(text) ==
    /\ hPc = "upstream"
    /\ hRoute = "variations"
    /\ IF JsonParse(text).threw
       THEN /\ hStatus' = 500
            /\ hBody' = ErrorAnswer(FailedText(hRoute))
       ELSE /\ hStatus' = 200
            /\ hBody' = [kind |-> "variations", variations |-> JsonParse(text).value]
    /\ hPc' = "answered"
    /\ hServed' = hServed + 1
    /\ UNCHANGED <<hRoute, hReq, hUpstream>>
    /\ UNCHANGED notHttpVars

\* generateContent of /generate resolves
ImageAnswered(response) ==
    /\ hPc = "upstream"
    /\ hRoute = "generate"
    /\ IF FirstInlineData(response) = ""
       THEN /\ hStatus' = 500
            /\ hBody' = ErrorAnswer("No image generated")
       ELSE /\ hStatus' = 200
            /\ hBody' = [kind |-> "image", image |-> DataUri(FirstInlineData(response))]
    /\ hPc' = "answered"
    /\ hServed' = hServed + 1
    /\ UNCHANGED <<hRoute, hReq, hUpstream>>
    /\ UNCHANGED notHttpVars

\* generateContent rejects: the catch of the handler
UpstreamRejects(err) ==
    /\ hPc = "upstream"
    /\ hStatus' = 500
    /\ hBody' = [kind |-> "error", error |-> FailedText(hRoute), cause |-> err]
    /\ hPc' = "answered"
    /\ hServed' = hServed + 1
    /\ UNCHANGED <<hRoute, hReq, hUpstream>>
    /\ UNCHANGED notHttpVars

NextHttp ==
    \/ HandleRequest
    \/ \E text \in HandlerTexts : VariationsAnswered(text)
    \/ \E response \in ImageResponses : ImageAnswered(response)
    \/ \E err \in RetryErrors : UpstreamRejects(err)

SpecHttp == Init /\ [][NextHttp]_vars

(***************************************************************************)
(* GeneratorForm on the page: the page is loaded (App and the form mount,  *)
(* the effect of the form runs), the user types, picks a type, submits;    *)
(* the runs handleSubmit starts go on as in handleGenerate.  localStorage  *)
(* outlives the page.                                                      *)
(***************************************************************************)
\* most loads of the page
MaxLoads == 2
\* the days the clock goes through
MaxDays == 2
\* longest list the service returns to a run started from the form
MaxFormLen == 2

\* if (clicks >= 3)
DailyLimit == 3

\* what the user types: nothing, blanks, a prompt
TypedPrompts == {"", "  ", "cats"}
\* prompt.trim()
Trim(text) == IF text \in {"", "  "} THEN "" ELSE text

\* new Date().toDateString() on day d
DateString(d) == <<"day", d>>

\* the characters of the decimal digits
DigitChars == <<"0", "1", "2", "3", "4", "5", "6", "7", "8", "9">>
DigitValue(c) == CHOOSE d \in 0..9 : DigitChars[d + 1] = c

\* n.toString() for n >= 0: the sequence of its decimal digits
RECURSIVE toString(_)
toString(n) ==
    IF n < 10 THEN <<DigitChars[n + 1]>>
    ELSE toString(n \div 10) \o <<DigitChars[(n % 10) + 1]>>

\* parseInt(str) of a string of decimal digits
RECURSIVE parseInt(_)
parseInt(str) ==
    IF Len(str) = 1 THEN DigitValue(str[1])
    ELSE 10 * parseInt(SubSeq(str, 1, Len(str) - 1)) + DigitValue(str[Len(str)])

\* item || fallback
ItemOr(item, fallback) == IF item = NoItem THEN fallback ELSE item

\* if (!prompt.trim() || isGenerating) return
SubmitBlockedIfEmpty(text, generating) == Trim(text) = ""
SubmitBlocked(text, generating) == Trim(text) = "" \/ generating

\* if (clicks >= 3) { alert(...); return }
LimitReachedAbove(count) == count > DailyLimit
LimitReached(count) == count >= DailyLimit

\* the answers of the service to the runs started from the form
FormTexts == {[kind |-> "array", items |-> ServiceList(len)] : len \in 1..MaxFormLen}

\* the errors the calls of these runs are rejected with: a rate-limit error,
\* a missing entity, another failure
FormErrors == {e \in UpstreamErrors :
                  /\ e.status = NoStatus
                  /\ e.message # NoMessage
                  /\ e.message.marks \subseteq {"429", "Requested entity was not found"}}

\* the page is loaded: App starts with its initial state, GeneratorForm mounts
\* and its effect reads localStorage
PageLoad ==
    /\ fLoads < MaxLoads
    /\ fLoads' = fLoads + 1
    /\ fMounted' = TRUE
    /\ prompt' = ""
    /\ selectedType' = STICKER
    /\ IF stDate # DateString(today)
       THEN /\ stClicks' = <<"0">>
            /\ stDate' = DateString(today)
            /\ clicks' = 0
            /\ fStarted' = 0
       ELSE /\ clicks' = parseInt(ItemOr(stClicks, <<"0">>))
            /\ UNCHANGED <<stClicks, stDate, fStarted>>
    /\ assets' = << >>
    /\ isGenerating' = FALSE
    /\ progress' = 0
    /\ error' = NoError
    /\ pc' = "idle"
    /\ type' = STICKER
    /\ variations' = << >>
    /\ newAssets' = << >>
    /\ i' = 0
    /\ responseText' = NotAsked
    /\ fetched' = << >>
    /\ outcomes' = << >>
    /\ pacings' = << >>
    /\ expandErr' = NotRejected
    /\ notFoundSeen' = FALSE
    /\ keyPrompts' = 0
    /\ errorSets' = 0
    /\ UNCHANGED <<today, fRuns, fLast>>
    /\ UNCHANGED notAppVars

\* midnight
DayPasses ==
    /\ today < MaxDays
    /\ today' = today + 1
    /\ UNCHANGED <<fMounted, clicks, prompt, selectedType, stClicks, stDate, fStarted, fRuns,
                   fLast, fLoads>>
    /\ UNCHANGED <<runVars, notAppVars>>

\* onChange of the input (the input is disabled while isGenerating)
TypePrompt(text) ==
    /\ fMounted
    /\ ~isGenerating
    /\ prompt' = text
    /\ UNCHANGED <<fMounted, clicks, selectedType, stClicks, stDate, today, fStarted, fRuns,
                   fLast, fLoads>>
    /\ UNCHANGED <<runVars, notAppVars>>

\* onClick of a type button
SelectType(t) ==
    /\ fMounted
    /\ selectedType' = t
    /\ UNCHANGED <<fMounted, clicks, prompt, stClicks, stDate, today, fStarted, fRuns,
                   fLast, fLoads>>
    /\ UNCHANGED <<runVars, notAppVars>>

\* handleSubmit, with the lines of handleGenerate up to its first await when
\* onGenerate is called
Submit ==
    /\ fMounted
    /\ IF SubmitBlocked(prompt, isGenerating)
       THEN /\ fLast' = "ignored"
            /\ UNCHANGED <<clicks, stClicks, fStarted, fRuns, runVars>>
       ELSE IF LimitReached(clicks)
       THEN /\ fLast' = "alert"
            /\ UNCHANGED <<clicks, stClicks, fStarted, fRuns, runVars>>
       ELSE /\ fLast' = "started"
            /\ fStarted' = fStarted + 1
            /\ fRuns' = fRuns + 1
            /\ clicks' = clicks + 1
            /\ stClicks' = toString(clicks + 1)
            /\ isGenerating' = TRUE
            /\ progress' = 0
            /\ error' = NoError
            /\ type' = selectedType
            /\ pc' = "expanding"
            /\ variations' = << >>
            /\ newAssets' = << >>
            /\ i' = 0
            /\ responseText' = NotAsked
            /\ fetched' = << >>
            /\ outcomes' = << >>
            /\ pacings' = << >>
            /\ expandErr' = NotRejected
            /\ notFoundSeen' = FALSE
            /\ keyPrompts' = 0
            /\ errorSets' = 0
            /\ UNCHANGED assets
    /\ UNCHANGED <<fMounted, prompt, selectedType, stDate, today, fLoads>>
    /\ UNCHANGED notAppVars

NextForm ==
    \/ PageLoad
    \/ DayPasses
    \/ \E text \in TypedPrompts : TypePrompt(text)
    \/ \E t \in InputTypes : SelectType(t)
    \/ Submit
    \/ \E text \in FormTexts : ExpandReturns(text)
    \/ \E err \in FormErrors : ExpandFails(err)
    \/ FetchSucceeds
    \/ \E err \in FormErrors : FetchFails(err)
    \/ AfterItem
    \/ PacingDone
    \/ \E resolved \in BOOLEAN : ReselectSettles(resolved)

SpecForm == Init /\ [][NextForm]_vars

(***************************************************************************)
(* Properties.                                                             *)
(***************************************************************************)
\* the run went through the whole loop (no error left it early)
LoopCompleted == pc = "ended" /\ responseText # NotAsked /\ i >= Len(variations)

\* the calls of generateSingleAsset that succeeded
OkCalls == {k \in 1..Len(outcomes) : outcomes[k] = "ok"}

\* round(a / b), a half going up, in exact arithmetic
RoundHalfUp(a, b) == (2 * a + b) \div (2 * b)

\* C1: if the fetch of item k fails with an error that withRetry classifies as
\* rate-limit (message with '429', or status RESOURCE_EXHAUSTED), no fetch is
\* started for an item after k, and the run ends with the rate-limit message.
C1_RateLimitAborts ==
    \A k \in 1..Len(outcomes) :
        outcomes[k] = "rateLimit" =>
            /\ Len(fetched) <= k
            /\ pc = "ended" => error = RateLimitMessage

\* C2: a fetch of item k that fails with an error not classified rate-limit is
\* skipped: if k is not the last item, the run goes on, without an error set,
\* to the fetch of item k+1; and a run in which no fetch failed with a
\* rate-limit error fetches every item.
C2_SkipContinues ==
    /\ \A k \in 1..Len(outcomes) :
          (outcomes[k] = "other" /\ k < Len(variations)) =>
              \/ Len(fetched) > k
              \/ /\ Len(fetched) = k
                 /\ pc \in {"processed", "pacing"}
                 /\ isGenerating
                 /\ error = NoError
    /\ (pc = "ended" /\ responseText # NotAsked
            /\ \A k \in 1..Len(outcomes) : outcomes[k] # "rateLimit")
          => Len(fetched) = Len(variations)

\* a run that skipped an item for an error not classified rate-limit, fetched
\* later items and came to its end
C2_Witness ==
    /\ pc = "ended"
    /\ Len(fetched) = Len(variations)
    /\ \E k \in 1..Len(outcomes) : outcomes[k] = "other" /\ k < Len(fetched)

\* each asset is in the visible collection from the step in which its fetch
\* succeeded
AddedAtOnce == {assets[p].id : p \in 1..Len(assets)} = OkCalls

\* C3 as stated: the visible collection lists the assets of the run in the
\* order of their prompts (the asset of prompt i before the asset of prompt j
\* when i < j), each added as soon as its fetch succeeds.
C3_PromptOrder ==
    /\ \A p, q \in 1..Len(assets) : p < q => assets[p].id < assets[q].id
    /\ AddedAtOnce

\* C3 amended: the visible collection lists the assets of the run newest
\* first (the asset of prompt j before the asset of prompt i when i < j), each
\* added as soon as its fetch succeeds.
C3_NewestFirst ==
    /\ \A p, q \in 1..Len(assets) : p < q => assets[p].id > assets[q].id
    /\ AddedAtOnce

\* the run is going on and two assets are visible already
C3_Witness == pc \in {"processed", "pacing", "fetching"} /\ Len(assets) >= 2

\* the answer of the service was unparsable, or a list shorter than asked for
ShortAnswer ==
    \/ responseText.kind \in {"garbage", "none"}
    \/ responseText.kind = "array" /\ Len(responseText.items) < RequestedCount

\* C4: when the service answers with a list of fewer than 20 entries, or with
\* unparsable output, a run that goes through all its items attempts exactly 20
\* fetches, those beyond the entries of the list with basePrompt.
C4_AlwaysTwentyFetches ==
    (LoopCompleted /\ ShortAnswer) =>
        /\ Len(fetched) = RequestedCount
        /\ \A j \in 1..Len(fetched) :
              fetched[j] = IF j <= Len(responseText.items)
                           THEN responseText.items[j] ELSE BasePrompt

\* C5: generatePromptVariations returns exactly count copies of basePrompt when
\* the payload cannot be parsed and when it parses to an empty sequence.
C5_FallbackIsCountCopies ==
    (\/ responseText.kind \in {"garbage", "none"}
     \/ responseText.kind = "array" /\ responseText.items = << >>)
        => variations = Fill(RequestedCount, BasePrompt)

\* C6: every asset of the run (in newAssets and in the visible collection) was
\* produced by a fetch that succeeded and carries the prompt of that fetch,
\* which is one of the prompts generatePromptVariations returned; a fetch that
\* failed has no asset.
FromSuccessfulFetch(a) ==
    /\ a.id \in 1..Len(outcomes)
    /\ outcomes[a.id] = "ok"
    /\ a.prompt = fetched[a.id]
    /\ \E j \in 1..Len(variations) : variations[j] = a.prompt

C6_AssetsFromSuccessfulFetches ==
    /\ \A p \in 1..Len(assets) : FromSuccessfulFetch(assets[p])
    /\ \A p \in 1..Len(newAssets) : FromSuccessfulFetch(newAssets[p])

\* a fetch failed, another succeeded and its asset is there
C6_Witness ==
    /\ Len(newAssets) >= 1
    /\ \E k \in 1..Len(outcomes) : outcomes[k] # "ok"
    /\ responseText.kind = "array"

\* C7: the number of assets a run produces never exceeds the count asked for.
C7_AtMostRequested ==
    /\ Len(newAssets) <= RequestedCount
    /\ Len(assets) <= RequestedCount

\* C8: after item k of n has been processed, progress is
\* min(100, round(100 * k / n)).
C8_ProgressIsRoundedRatio ==
    pc = "processed" =>
        progress = Min(100, RoundHalfUp(100 * (i + batchSize), Len(variations)))

\* C9: progress stays in 0..100, is 0 when the run starts and when it has
\* ended, and never decreases from the start of the run to its end.
C9_ProgressMonotone ==
    /\ [](progress \in 0..100)
    /\ [](pc \in {"idle", "expanding", "ended"} => progress = 0)
    /\ [][pc' # "ended" => progress' >= progress]_vars

\* a run has ended after its progress had been advanced at least twice
C9_Witness == pc = "ended" /\ Len(outcomes) >= 2 /\ progress = 0

\* C10: a run that went through all its prompts without a successful fetch
\* ends with the EmptyRun message; a run with a successful fetch does not.
C10_EmptyRun ==
    /\ (LoopCompleted /\ OkCalls = {}) => error = EmptyRunMessage
    /\ (pc = "ended" /\ OkCalls # {}) => error # EmptyRunMessage

\* a run went through its prompts, every fetch failed, and the EmptyRun
\* message is set
C10_Witness ==
    /\ LoopCompleted
    /\ Len(outcomes) >= 1
    /\ OkCalls = {}
    /\ error = EmptyRunMessage

\* err.message || 'Failed to forge elements. Please try again.'
GenericMessage(err) == IF err.message = NoMessage THEN DefaultMessage ELSE err.message

\* generatePromptVariations rejected with an error not classified rate-limit
ExpansionFailed == expandErr # NotRejected /\ ~isRateLimit(expandErr)

\* C11 as stated: if generatePromptVariations fails with an error that is not
\* rate-limit, no generateSingleAsset call is made, the run adds no asset, and
\* the error is the error's own message or the default one.
C11_ExpansionFailureGeneric ==
    ExpansionFailed =>
        /\ fetched = << >>
        /\ newAssets = << >>
        /\ assets = << >>
        /\ error = GenericMessage(expandErr)

\* C11 amended: the same for an error that is neither rate-limit nor
\* 'Requested entity was not found', the run being ended at once; for
\* 'Requested entity was not found' no fetch is made and no asset added either,
\* but the error is the authentication message.
C11_ExpansionFailureAborts ==
    ExpansionFailed =>
        /\ fetched = << >>
        /\ newAssets = << >>
        /\ assets = << >>
        /\ IF Includes(expandErr, "Requested entity was not found")
           THEN error = AuthMessage
           ELSE pc = "ended" /\ ~isGenerating /\ error = GenericMessage(expandErr)

\* the expansion failed with a transient server error and the run ended with
\* the message of that error
C11_Witness ==
    /\ ExpansionFailed
    /\ Includes(expandErr, "500")
    /\ pc = "ended"
    /\ error = expandErr.message

\* C12: when a call of the run (the expansion or an item fetch) is rejected
\* with 'Requested entity was not found', the run surfaces the authentication
\* message and calls openSelectKey.
C12_NotFoundSurfacesAuth ==
    (pc = "ended" /\ notFoundSeen) => (error = AuthMessage /\ keyPrompts >= 1)

\* the latest invocation of fn failed
LastFailed == rLast \notin {NotInvoked, Resolved}
\* withRetry classifies the error as one to retry
Retryable(err) == isRateLimit(err) \/ isServerError(err)

\* C13: a call of withRetry with maxRetries >= 1 invokes fn at most maxRetries
\* times, whatever earlier calls did; when every invocation fails with a
\* retryable error it invokes fn exactly maxRetries times and throws the error
\* of the last invocation; when an invocation resolves it returns and invokes
\* fn no more.
C13_AttemptBudget ==
    /\ [](rMax >= 1 =>
            /\ rCount <= rMax
            /\ rPc = "thrown" => rResult = rLast
            /\ (rPc = "thrown" /\ Retryable(rLast)) => rCount = rMax
            /\ rPc = "returned" => rResult = Resolved)
    /\ [][(rPc = "returned" /\ rCallNo' = rCallNo) => UNCHANGED <<rCount, rPc>>]_vars

\* the second call of withRetry used up its budget of at least two attempts
C13_Witness ==
    /\ rCallNo = 2
    /\ rMax >= 2
    /\ rPc = "thrown"
    /\ rCount = rMax
    /\ Retryable(rLast)

\* C14: when an invocation fails with an error that is neither rate-limit nor
\* transient server error, withRetry throws that error at once: it does not
\* wait and does not invoke fn again.
C14_NoRetryOfOtherErrors ==
    /\ [](((LastFailed /\ ~Retryable(rLast)) =>
            (rPc = "thrown" /\ rResult = rLast /\ Len(rWaits) = rCount - 1)))
    /\ [][(rPc \in {"invoking", "final"} /\ rPc' = "sleeping") => Retryable(rLast')]_vars

\* a first attempt of several failed with an error that is not retried
C14_Witness ==
    /\ rMax >= 2
    /\ rCount = 1
    /\ LastFailed
    /\ ~Retryable(rLast)
    /\ rPc = "thrown"

\* C15: the first wait is initialDelay, each later wait is between twice the
\* wait before it and that plus 1000 ms, and there is one wait between each
\* retried failure and the next invocation, and no other.
C15_Backoff ==
    /\ Len(rWaits) >= 1 => rWaits[1] = rInit
    /\ \A j \in 2..Len(rWaits) :
          /\ 2 * rWaits[j - 1] <= rWaits[j]
          /\ rWaits[j] <= 2 * rWaits[j - 1] + JitterRange
    /\ rPc \in {"invoking", "final"} => Len(rWaits) = rCount
    /\ rPc = "sleeping" => (Len(rWaits) = rCount /\ LastFailed /\ Retryable(rLast))
    /\ rPc \in {"returned", "thrown"} => Len(rWaits) = rCount - 1

\* a call with the default delay has waited three times
C15_Witness ==
    /\ rInit = DefaultInitialDelay
    /\ Len(rWaits) = 3
    /\ rWaits[1] = DefaultInitialDelay
    /\ rWaits[3] > 2 * rWaits[2]

\* C16: an asset once in the visible collection stays in it, unchanged and
\* behind the assets added after it, through every step: failures of later
\* items, a rate-limit abort, the end of the run, the start of a later run.
C16_AssetsKept ==
    [][/\ Len(assets') >= Len(assets)
       /\ SubSeq(assets', Len(assets') - Len(assets) + 1, Len(assets')) = assets]_vars

\* a later run was aborted by a rate-limit error on its fifth fetch after
\* four fetches had succeeded: its four assets are there, before the assets
\* of the earlier run
C16_Witness ==
    /\ reruns >= 1
    /\ pc = "ended"
    /\ error = RateLimitMessage
    /\ outcomes = <<"ok", "ok", "ok", "ok", "rateLimit">>
    /\ Len(newAssets) = 4
    /\ \A k \in 1..4 : assets[k] = newAssets[5 - k]
    /\ Len(assets) > 4

\* C17: a run that has started comes to its end, and at its end isGenerating
\* is false and at most one error message has been set.
C17_RunEnds ==
    /\ (pc = "expanding") ~> (pc = "ended")
    /\ [](pc = "ended" => (~isGenerating /\ errorSets <= 1))

\* a run has ended with an error message set after going through its loop
C17_Witness ==
    /\ LoopCompleted
    /\ ~isGenerating
    /\ errorSets = 1
    /\ error = EmptyRunMessage

\* C18: generateSingleAsset hands the fetched image to removeWhiteBackground,
\* once, exactly for the kinds STICKER, PNG_ELEMENT, GRAPHIC, SHAPE_3D and
\* STAMP, and resolves with what it gives; for MOCKUP and PHOTO it resolves
\* with the fetched image itself; for GIF removeWhiteBackground is never called.
C18_StripForTransparentKinds ==
    /\ gStrips # << >> => gType \in {STICKER, PNG_ELEMENT, GRAPHIC, SHAPE_3D, STAMP}
    /\ (gPc = "resolved" /\ gType \in {STICKER, PNG_ELEMENT, GRAPHIC, SHAPE_3D, STAMP})
          => (gStrips = <<FetchedImage>> /\ gResult \in StripResults(FetchedImage))
    /\ (gPc = "resolved" /\ gType \in {MOCKUP, PHOTO})
          => (gStrips = << >> /\ gResult = FetchedImage)
    /\ gType = GIF => gStrips = << >>
    /\ (gPc = "resolved" /\ gType = GIF) => gResult = BlobUrl

\* a stamp was fetched and resolved with the image of the canvas
C18_Witness ==
    /\ gPc = "resolved"
    /\ gType = STAMP
    /\ gStrips = <<FetchedImage>>
    /\ gResult = StrippedImage

\* the call has resolved for an image that was decoded and drawn on a canvas
Stripped == sPc = "resolved" /\ sInput.decodes /\ sContext

C20_FailureGivesInput ==
    /\ sPc \in {"idle", "loading", "resolved"}
    /\ (sPc = "resolved" /\ (~sInput.decodes \/ ~sContext)) => sResult = sInput

\* a call with data that is no image has resolved with that data
C20_Witness ==
    /\ sPc = "resolved"
    /\ sInput = CorruptUrl
    /\ sResult = CorruptUrl

\* the request in hand is a POST with what its handler needs
ValidInput ==
    /\ hReq.method = "POST"
    /\ hReq.body.prompt \notin {Absent, ""}
    /\ hRoute = "generate" => hReq.body.type \notin {Absent, ""}

\* C21: a request that is not a POST is answered 405 whatever its body, a
\* POST without prompt (for /generate: without prompt or type) is answered
\* 400, both without a call of the upstream service; a POST with its input
\* makes one upstream call and is answered 200 with the variations or the
\* image data URI, or 500 (upstream failure, no image payload).
C21_ValidateBeforeUpstream ==
    hReq # NoRequest =>
        /\ hReq.method # "POST" =>
              (hPc = "answered" /\ hStatus = 405 /\ hUpstream = << >>)
        /\ (hReq.method = "POST" /\ ~ValidInput) =>
              (hPc = "answered" /\ hStatus = 400 /\ hUpstream = << >>)
        /\ ValidInput => Len(hUpstream) = 1
        /\ (ValidInput /\ hPc = "answered") =>
              \/ hStatus = 500 /\ hBody.kind = "error"
              \/ /\ hStatus = 200
                 /\ hRoute = "variations" => hBody.kind = "variations"
                 /\ hRoute = "generate" =>
                       (hBody.kind = "image" /\ hBody.image[1] = "data:image/png;base64,"
                            /\ hBody.image[2] # "")

\* the second request, a POST to /generate with prompt and type, was answered
\* 200 after a request that was not a POST
C21_Witness ==
    /\ hServed = 2
    /\ hPc = "answered"
    /\ hRoute = "generate"
    /\ ValidInput
    /\ hStatus = 200
    /\ hBody.kind = "image"

\* the latest fetch that has settled succeeded
LastOk == outcomes # << >> /\ outcomes[Len(outcomes)] = "ok"

\* C22: progress is advanced only when the fetch of an item succeeds, to
\* round(100 * completed / total), completed being the number of assets the
\* run has produced; an item that is skipped leaves progress as it was.
C22_ProgressCountsSuccesses ==
    /\ []((pc = "processed" /\ LastOk)
            => progress = RoundHalfUp(100 * Len(newAssets), Len(variations)))
    /\ [][(pc = "fetching" /\ pc' = "processed" /\ ~LastOk') => progress' = progress]_vars

\* C23: every pacing wait is 4000 ms; there is exactly one between the fetches
\* of two items that follow one another, whether the first succeeded or was
\* skipped; a wait is started only when a next item exists, so none follows
\* the last item, and none follows an abort.
C23_OnePacingBetweenItems ==
    /\ \A k \in 1..Len(pacings) : pacings[k] = 4000
    /\ pc = "pacing" => (Len(pacings) = Len(fetched) /\ Len(fetched) < Len(variations))
    /\ pc # "pacing" =>
          Len(pacings) = IF fetched = << >> THEN 0 ELSE Len(fetched) - 1

\* a run was aborted by a rate-limit error on its third fetch, after an item
\* that was skipped and one that succeeded: two waits
C23_Witness ==
    /\ pc = "ended"
    /\ outcomes = <<"other", "ok", "rateLimit">>
    /\ error = RateLimitMessage
    /\ pacings = <<4000, 4000>>

\* the calls of generateSingleAsset that have not settled
InFlight == Len(fetched) - Len(outcomes)

\* C24: at most one call of generateSingleAsset is in flight; a fetch is
\* started only when the one before has settled, one at a time, and none is
\* started before generatePromptVariations has returned.
C24_OneFetchInFlight ==
    /\ [](InFlight \in {0, 1})
    /\ [](fetched # << >> => responseText # NotAsked)
    /\ [][Len(fetched') > Len(fetched)
             => (InFlight = 0 /\ Len(fetched') = Len(fetched) + 1)]_vars

\* the third fetch of a run is in flight, the two before it have settled
C24_Witness ==
    /\ pc = "fetching"
    /\ Len(fetched) = 3
    /\ Len(outcomes) = 2
    /\ responseText # NotAsked

\* the places of gTrace where the call named is made
CallsOf(name) == {k \in 1..Len(gTrace) : gTrace[k].call = name}

\* C25: for the motion kind the credential is queried first and, when it is
\* absent, openSelectKey is run before the job is submitted; every poll comes
\* right after a wait of 15000 ms and is made through withRetry; after the
\* job has reported done no poll is made, and the download is started only
\* when the job has reported done.
C25_MotionOrder ==
    /\ [](gType = GIF =>
            /\ gTrace # << >> => gTrace[1].call = "hasSelectedApiKey"
            /\ \A k \in CallsOf("generateVideos") :
                   /\ gHasKey \in {"yes", "no"}
                   /\ gHasKey = "no" => (k = 3 /\ gTrace[2].call = "openSelectKey")
                   /\ gHasKey = "yes" => k = 2
            /\ \A k \in CallsOf("getVideosOperation") :
                   /\ gTrace[k].retried
                   /\ gTrace[k - 1].call = "sleep" /\ gTrace[k - 1].ms = 15000
                   /\ CallsOf("generateVideos") # {} /\ \A j \in CallsOf("generateVideos") : j < k
            /\ \A k \in CallsOf("sleep") : gTrace[k].ms = 15000
            /\ \A k \in CallsOf("fetch") :
                   gDone /\ \A j \in CallsOf("getVideosOperation") \cup CallsOf("sleep") : j < k)
    /\ [][(gType = GIF /\ gDone) =>
             (gDone' /\ CallsOf("getVideosOperation")' = CallsOf("getVideosOperation")
                     /\ CallsOf("sleep")' = CallsOf("sleep"))]_vars

\* a motion asset was delivered: the key was absent and selected, the job was
\* not done when submitted and done at the second poll
C25_Witness ==
    /\ gType = GIF
    /\ gPc = "resolved"
    /\ gHasKey = "no"
    /\ gPolls = 2
    /\ Len(gTrace) = 9

\* a run of handleGenerate is in progress
RunInProgress == pc \notin {"idle", "ended"}

\* C26: a run is in progress exactly while isGenerating is true; while it is
\* true no submit starts a run; on a page it goes back to false only with the
\* end of the run.
C26_OneRunAtATime ==
    /\ [](isGenerating <=> RunInProgress)
    /\ [][isGenerating => fRuns' = fRuns]_vars
    /\ [][(isGenerating /\ ~isGenerating' /\ fLoads' = fLoads) => pc' = "ended"]_vars

\* a submit was ignored while the second run of the page was in progress
C26_Witness ==
    /\ isGenerating
    /\ pc = "fetching"
    /\ fRuns = 2
    /\ fLast = "ignored"
    /\ Trim(prompt) # ""

\* C27: a run is started only with the counter below 3, and then the counter
\* and the persisted daily_clicks go up by exactly 1; every other step but a
\* load of the page (a rejected submit, the steps of the run, whatever its
\* outcome) leaves both as they were; the counter goes back to 0 only when
\* the form mounts on a day that is not the persisted last_date; so at most 3
\* runs are started between two resets.
C27_DailyLimit ==
    /\ [](fStarted <= 3)
    /\ [](fMounted => (clicks = fStarted /\ parseInt(ItemOr(stClicks, <<"0">>)) = fStarted))
    /\ [][fRuns' # fRuns =>
             /\ clicks < 3
             /\ clicks' = clicks + 1
             /\ parseInt(stClicks') = parseInt(stClicks) + 1]_vars
    /\ [][(fRuns' = fRuns /\ fLoads' = fLoads) =>
             (clicks' = clicks /\ stClicks' = stClicks)]_vars
    /\ [][(clicks' = 0 /\ clicks # 0) =>
             (fLoads' # fLoads /\ stDate # DateString(today))]_vars

\* the fourth submit of a day was refused with the alert after three runs,
\* the last of which ended with an error
C27_Witness ==
    /\ fStarted = 3
    /\ clicks = 3
    /\ stClicks = <<"3">>
    /\ fLast = "alert"
    /\ pc = "ended"
    /\ error # NoError

====
